---- MODULE Spec2Model ----
(***************************************************************************)
(* Model of the Clang Static Analyzer wrapper (analyzers/csa_wrapper.py):  *)
(* the diagnostic parser CSAWrapper._parse_text_output, the per-file       *)
(* invoker CSAWrapper.analyze_file and the batch loop                      *)
(* CSAWrapper.analyze_directory.                                           *)
(*                                                                         *)
(* Text is modelled as a sequence of tokens.  A token is a string that the *)
(* parser never looks inside: ":" is the colon, " " one whitespace         *)
(* character, "\n" the line terminator, and every other token ("warning",  *)
(* "f.c", "null deref") stands for a run of characters holding neither a   *)
(* colon nor a line break nor leading/trailing whitespace.                 *)
(***************************************************************************)
EXTENDS Integers, Sequences, FiniteSets, TLC

VARIABLES
    \* ---- _parse_text_output ----
    output,           \* the diagnostic text handed to the parser
    lines,            \* output.splitlines()
    pos,              \* number of lines the for loop has consumed
    warnings,         \* list of references to warning dicts
    current_warning,  \* reference to the open warning dict, 0 = None
    heap,             \* the warning dicts, by reference
    ppc,              \* parser position: "idle", "start", "loop", "done"
    \* ---- environment of a run ----
    clang_works,      \* whether "clang --version" succeeds
    fs,               \* the files under root_dir that pass the locator's filters
    proc,             \* what the latest analyzer subprocess did
    \* ---- analyze_directory ----
    max_files,        \* the max_files argument, None or an integer
    source_files,     \* the local list of files to analyze
    idx,              \* i - 1: number of files the for loop has consumed
    results,          \* the results dict under construction
    ret,              \* the value analyze_directory returned
    pc,               \* "idle", "new", "ready", "loop", "done", "summarized", "raised"
    locator_calls,    \* calls of find_source_files made by the current analyze_directory
    analyzer,         \* a deterministic analyzer: what it does on each file
    run,              \* number of the current analyze_directory call
    prev_ret,         \* the value the previous analyze_directory call returned
    summary,          \* the report summarize_results returned, as lines
    \* ---- find_source_files ----
    tree,             \* the files on disk under root_dir, as component lists
    root_dir,         \* the root_dir argument
    root_exists,      \* whether root_dir is a directory on disk
    exclude_patterns, \* the exclude_patterns argument, None or a list
    pending,          \* directories os.walk has still to yield
    visited,          \* directories os.walk has yielded
    found,            \* the local list source_files, in walk order
    located,          \* the value find_source_files returned
    lpc               \* "idle", "start", "walk", "done"

pvars == <<output, lines, pos, warnings, current_warning, heap, ppc>>
bvars == <<clang_works, fs, proc, max_files, source_files, idx, results, ret, pc,
           locator_calls, analyzer, run, prev_ret, summary>>
lvars == <<tree, root_dir, root_exists, exclude_patterns, pending, visited,
           found, located, lpc>>
vars  == <<output, lines, pos, warnings, current_warning, heap, ppc,
           clang_works, fs, proc, max_files, source_files, idx, results, ret, pc,
           locator_calls, analyzer, run, prev_ret, summary,
           tree, root_dir, root_exists, exclude_patterns, pending, visited,
           found, located, lpc>>

(***************************************************************************)
(* Bounds                                                                  *)
(***************************************************************************)
MaxLines == 4
MaxPaths == 3
MaxRuns  == 2

(***************************************************************************)
(* Tokens and string helpers                                               *)
(***************************************************************************)
COLON == ":"
SPACE == " "
NL    == "\n"

Whitespace == {SPACE}

\* pat in line  (Python substring test)
Contains(line, pat) ==
    \E i \in 0..(Len(line) - Len(pat)) : SubSeq(line, i + 1, i + Len(pat)) = pat

\* s.strip()
RECURSIVE LStrip(_)
LStrip(s) == IF s # <<>> /\ Head(s) \in Whitespace THEN LStrip(Tail(s)) ELSE s

RECURSIVE RStrip(_)
RStrip(s) ==
    IF s # <<>> /\ s[Len(s)] \in Whitespace
    THEN RStrip(SubSeq(s, 1, Len(s) - 1))
    ELSE s

Strip(s) == LStrip(RStrip(s))

\* index of the first occurrence of tok in s, 0 when absent
FirstIndex(s, tok) ==
    IF \E i \in 1..Len(s) : s[i] = tok
    THEN CHOOSE i \in 1..Len(s) : s[i] = tok /\ \A j \in 1..(i - 1) : s[j] # tok
    ELSE 0

\* s.split(":", maxsplit)
RECURSIVE Split(_, _)
Split(s, maxsplit) ==
    LET i == FirstIndex(s, COLON)
    IN  IF maxsplit = 0 \/ i = 0
        THEN <<s>>
        ELSE <<SubSeq(s, 1, i - 1)>> \o Split(SubSeq(s, i + 1, Len(s)), maxsplit - 1)

\* s.splitlines(): a line break ends a line; no empty last line after a
\* trailing break; the empty text has no lines
RECURSIVE SplitLines(_)
SplitLines(s) ==
    LET i == FirstIndex(s, NL)
    IN  IF s = <<>> THEN <<>>
        ELSE IF i = 0 THEN <<s>>
        ELSE <<SubSeq(s, 1, i - 1)>> \o SplitLines(SubSeq(s, i + 1, Len(s)))

(***************************************************************************)
(* _parse_text_output                                                      *)
(***************************************************************************)
WarningMarker == <<COLON, SPACE, "warning", COLON>>
ErrorMarker   == <<COLON, SPACE, "error", COLON>>

IsHeaderLine_AnyFiveParts(line) == Len(Split(line, 4)) >= 5

\* if ": warning:" in line or ": error:" in line
IsHeaderLine(line) == Contains(line, WarningMarker) \/ Contains(line, ErrorMarker)

HeaderParts_Unbounded(line) == Split(line, Len(line))

\* parts = line.split(":", 4)
HeaderParts(line) == Split(line, 4)

\* if len(parts) >= 5
OpensRecord(parts) == Len(parts) >= 5

\* the dict literal built from parts
NewWarning(parts) ==
    [file     |-> Strip(parts[1]),
     line     |-> Strip(parts[2]),
     column   |-> Strip(parts[3]),
     severity |-> Strip(parts[4]),
     message  |-> Strip(parts[5]),
     context  |-> <<>>]

IsContextLine_KeepBlank(cur, line) == cur # 0

\* elif current_warning and line.strip()
IsContextLine(cur, line) == cur # 0 /\ Strip(line) # <<>>

\* if current_warning: warnings.append(current_warning)
Flush(ws, cur) == IF cur # 0 THEN Append(ws, cur) ELSE ws

\* one iteration of the for loop over the parser state
\* st = [warnings, current_warning, heap]
ParseLine(st, line) ==
    IF IsHeaderLine(line)
    THEN LET ws    == Flush(st.warnings, st.current_warning)
             parts == HeaderParts(line)
         IN  IF OpensRecord(parts)
             THEN [warnings        |-> ws,
                   current_warning |-> Len(st.heap) + 1,
                   heap            |-> Append(st.heap, NewWarning(parts))]
             ELSE [st EXCEPT !.warnings = ws]
    ELSE IF IsContextLine(st.current_warning, line)
    THEN [st EXCEPT !.heap[st.current_warning].context = Append(@, line)]
    ELSE st

ParseInit == [warnings |-> <<>>, current_warning |-> 0, heap |-> <<>>]

RECURSIVE ParseLines(_, _)
ParseLines(st, ls) ==
    IF ls = <<>> THEN st ELSE ParseLines(ParseLine(st, Head(ls)), Tail(ls))

\* the returned list: the dicts the references in warnings point to
Deref(ws, hp) == [i \in 1..Len(ws) |-> hp[ws[i]]]

\* the loop and the final flush over a list of lines
ParseResult(ls) ==
    LET st == ParseLines(ParseInit, ls)
    IN  Deref(Flush(st.warnings, st.current_warning), st.heap)

\* the whole function, as a value
parse_text_output(text) == ParseResult(SplitLines(text))

(***************************************************************************)
(* Diagnostic texts fed to the parser                                      *)
(***************************************************************************)
HdrWarn   == <<"f.c", COLON, "10", COLON, "5", COLON, SPACE, "warning", COLON, SPACE, "null deref">>
HdrErr    == <<"f.c", COLON, "20", COLON, "1", COLON, SPACE, "error", COLON, SPACE, "leak">>
HdrColons == <<"f.c", COLON, "30", COLON, "2", COLON, SPACE, "warning", COLON, SPACE, "a", COLON, SPACE, "b", SPACE>>
HdrDrive  == <<"C", COLON, "\\x.c", COLON, "1", COLON, "2", COLON, SPACE, "warning", COLON, SPACE, "m">>
HdrShort  == <<"note", COLON, SPACE, "warning", COLON, SPACE, "x">>
HdrNoCol  == <<"f.c", COLON, "10", COLON, SPACE, "warning", COLON, SPACE, "m">>
NoteLine  == <<"f.c", COLON, "10", COLON, "5", COLON, SPACE, "note", COLON, SPACE, "x">>
TraceLine == <<SPACE, SPACE, "trace line">>
BlankLine == <<>>
SpaceLine == <<SPACE, SPACE>>

LineSet == {HdrWarn, HdrErr, HdrColons, HdrDrive, HdrShort, HdrNoCol,
            NoteLine, TraceLine, BlankLine, SpaceLine}

RECURSIVE JoinLines(_)
JoinLines(ls) ==
    IF ls = <<>> THEN <<>>
    ELSE IF Len(ls) = 1 THEN Head(ls)
    ELSE Head(ls) \o <<NL>> \o JoinLines(Tail(ls))

LineSeqs == UNION {[1..n -> LineSet] : n \in 0..MaxLines}

\* every text of at most MaxLines lines, with and without a final line break
Texts == {JoinLines(ls) : ls \in LineSeqs}
            \cup {JoinLines(ls) \o <<NL>> : ls \in LineSeqs}

(***************************************************************************)
(* The parser as a state machine, one step per loop iteration              *)
(***************************************************************************)
\* value of a local that is not bound yet
Unbound == [unbound |-> TRUE]

\* find_source_files is not called
LocatorIdle ==
    /\ tree = {}
    /\ root_dir = <<>>
    /\ root_exists = TRUE
    /\ exclude_patterns = <<>>
    /\ pending = {}
    /\ visited = {}
    /\ found = <<>>
    /\ located = <<>>
    /\ lpc = "idle"

\* the run is not started: the parser is exercised on its own
BatchIdle ==
    /\ clang_works = TRUE
    /\ fs = {}
    /\ proc = [kind |-> "none"]
    /\ max_files = <<>>
    /\ source_files = <<>>
    /\ idx = 0
    /\ results = Unbound
    /\ ret = Unbound
    /\ pc = "idle"
    /\ locator_calls = 0
    /\ analyzer = <<>>
    /\ run = 1
    /\ prev_ret = Unbound
    /\ summary = <<>>

ParserState == [warnings |-> warnings, current_warning |-> current_warning, heap |-> heap]

ParseInitState ==
    /\ output \in Texts
    /\ lines = <<>>
    /\ pos = 0
    /\ warnings = <<>>
    /\ current_warning = 0
    /\ heap = <<>>
    /\ ppc = "start"
    /\ BatchIdle
    /\ LocatorIdle

\* lines 168-171: warnings = [], current_warning = None, output.splitlines()
ParseStart ==
    /\ ppc = "start"
    /\ lines' = SplitLines(output)
    /\ warnings' = <<>>
    /\ current_warning' = 0
    /\ heap' = <<>>
    /\ pos' = 0
    /\ ppc' = "loop"
    /\ UNCHANGED output
    /\ UNCHANGED bvars
    /\ UNCHANGED lvars

ParseApply(line) ==
    LET st == ParseLine(ParserState, line)
    IN  /\ warnings' = st.warnings
        /\ current_warning' = st.current_warning
        /\ heap' = st.heap
        /\ pos' = pos + 1
        /\ UNCHANGED <<output, lines, ppc>>
        /\ UNCHANGED bvars
        /\ UNCHANGED lvars

\* lines 173-186: a line carrying a severity marker
ParseHeader ==
    /\ ppc = "loop"
    /\ pos < Len(lines)
    /\ IsHeaderLine(lines[pos + 1])
    /\ ParseApply(lines[pos + 1])

\* lines 187-189: a non-blank line while a record is open
ParseContext ==
    /\ ppc = "loop"
    /\ pos < Len(lines)
    /\ ~IsHeaderLine(lines[pos + 1])
    /\ IsContextLine(current_warning, lines[pos + 1])
    /\ ParseApply(lines[pos + 1])

\* neither branch taken: blank line, or no record open
ParseSkip ==
    /\ ppc = "loop"
    /\ pos < Len(lines)
    /\ ~IsHeaderLine(lines[pos + 1])
    /\ ~IsContextLine(current_warning, lines[pos + 1])
    /\ ParseApply(lines[pos + 1])

\* lines 191-194: flush the open record and return
ParseEnd ==
    /\ ppc = "loop"
    /\ pos = Len(lines)
    /\ warnings' = Flush(warnings, current_warning)
    /\ ppc' = "done"
    /\ UNCHANGED <<output, lines, pos, current_warning, heap>>
    /\ UNCHANGED bvars
    /\ UNCHANGED lvars

ParseNext == ParseStart \/ ParseHeader \/ ParseContext \/ ParseSkip \/ ParseEnd

SpecParse == ParseInitState /\ [][ParseNext]_vars

\* the list _parse_text_output returns
Returned == Deref(warnings, heap)

(***************************************************************************)
(* Vocabulary of the properties, stated on the text alone                  *)
(***************************************************************************)
SeverityWords == {"warning", "error"}

\* the line carries ": warning:" or ": error:"
HasSeverityMarker(l) ==
    \E i \in 1..(Len(l) - 3) :
        /\ l[i] = COLON
        /\ l[i + 1] = SPACE
        /\ l[i + 2] \in SeverityWords
        /\ l[i + 3] = COLON

\* number of fields ended by a colon (path, line, col, severity; the
\* message is what follows the fourth)
ColonFields(l) == Cardinality({i \in 1..Len(l) : l[i] = COLON})

WellFormedHeader(l) == HasSeverityMarker(l) /\ ColonFields(l) >= 4
MalformedHeader(l)  == HasSeverityMarker(l) /\ ColonFields(l) < 4
Blank(l)            == \A i \in 1..Len(l) : l[i] = SPACE

HeaderIdx(ls) == {i \in 1..Len(ls) : WellFormedHeader(ls[i])}

\* position of the k-th well-formed header of ls
NthHeader(ls, k) ==
    CHOOSE i \in HeaderIdx(ls) : Cardinality({j \in HeaderIdx(ls) : j <= i}) = k

\* position of the first well-formed header after line i, Len(ls)+1 if none
NextHeaderAfter(ls, i) ==
    LET later == {j \in HeaderIdx(ls) : j > i} \cup {Len(ls) + 1}
    IN  CHOOSE j \in later : \A m \in later : j <= m

IsContextText(l) == ~Blank(l) /\ ~HasSeverityMarker(l)

\* the non-blank, non-header lines after header i up to the next header
ExpectedContext(ls, i) ==
    SelectSeq(SubSeq(ls, i + 1, NextHeaderAfter(ls, i) - 1), IsContextText)

\* position of the n-th colon of l, 0 for n = 0
ColonPos(l, n) ==
    IF n = 0 THEN 0
    ELSE CHOOSE i \in 1..Len(l) :
            l[i] = COLON /\ Cardinality({j \in 1..i : l[j] = COLON}) = n

\* blanks removed from both ends, by position
Trimmed(s) ==
    LET solid == {i \in 1..Len(s) : s[i] # SPACE}
    IN  IF solid = {} THEN <<>>
        ELSE SubSeq(s, CHOOSE i \in solid : \A j \in solid : i <= j,
                       CHOOSE i \in solid : \A j \in solid : i >= j)

\* the n-th colon-delimited field of l, n in 1..4
FieldOf(l, n) == Trimmed(SubSeq(l, ColonPos(l, n - 1) + 1, ColonPos(l, n) - 1))

\* everything after the fourth colon
MessageOf(l) == Trimmed(SubSeq(l, ColonPos(l, 4) + 1, Len(l)))

RemoveAt(ls, i) == SubSeq(ls, 1, i - 1) \o SubSeq(ls, i + 1, Len(ls))

ScenarioText == HdrWarn \o <<NL>> \o TraceLine \o <<NL>> \o HdrErr \o <<NL>>

ScenarioRecords ==
    << [file |-> <<"f.c">>, line |-> <<"10">>, column |-> <<"5">>,
        severity |-> <<"warning">>, message |-> <<"null deref">>,
        context |-> <<TraceLine>>],
       [file |-> <<"f.c">>, line |-> <<"20">>, column |-> <<"1">>,
        severity |-> <<"error">>, message |-> <<"leak">>,
        context |-> <<>>] >>

(***************************************************************************)
(* Properties of the parser                                                *)
(***************************************************************************)

\* C1: the number of records parse returns equals the number of well-formed
\* header lines of the text (no header line yields more than one record).
C1_RecordCountEqualsHeaders ==
    ppc = "done" => Len(Returned) = Cardinality(HeaderIdx(lines))

\* C2: the context of every returned record is exactly the non-blank,
\* non-header lines between the header that opened the record and the next
\* well-formed header (or the end of the text), verbatim and in order.
C2_ContextIsOwnBlock ==
    ppc = "done" =>
        \A n \in 1..Len(warnings) :
            /\ warnings[n] \in 1..Cardinality(HeaderIdx(lines))
            /\ heap[warnings[n]].context
                  = ExpectedContext(lines, NthHeader(lines, warnings[n]))

C2_Witness ==
    /\ ppc = "done"
    /\ lines = <<TraceLine, HdrWarn, BlankLine, TraceLine>>
    /\ Len(Returned) = 1
    /\ Returned[1].context = <<TraceLine>>

\* C3: a malformed header line is ignored wherever it occurs: the records
\* returned are those returned for the text with that line removed.
C3_MalformedHeaderIgnored ==
    ppc = "done" =>
        \A i \in 1..Len(lines) :
            MalformedHeader(lines[i]) => Returned = ParseResult(RemoveAt(lines, i))

\* C4: the record opened by a header line has file, line, column and
\* severity equal to the first four colon-delimited fields and message equal
\* to everything after the fourth colon, whitespace trimmed; the scenario
\* text parses to exactly its two records.
C4_FieldsFromHeader ==
    ppc = "done" =>
        /\ \A k \in 1..Len(heap) :
              /\ k <= Cardinality(HeaderIdx(lines))
              /\ LET l == lines[NthHeader(lines, k)]
                 IN  /\ heap[k].file     = FieldOf(l, 1)
                     /\ heap[k].line     = FieldOf(l, 2)
                     /\ heap[k].column   = FieldOf(l, 3)
                     /\ heap[k].severity = FieldOf(l, 4)
                     /\ heap[k].message  = MessageOf(l)
        /\ output = ScenarioText => Returned = ScenarioRecords

C4_Witness ==
    /\ ppc = "done"
    /\ output = ScenarioText
    /\ Len(Returned) = 2
    /\ Returned[2].message = <<"leak">>

(***************************************************************************)
(* find_source_files, analyze_file and analyze_directory                   *)
(*                                                                         *)
(* A path is a number; the order of the numbers is the lexicographic order *)
(* of the absolute paths.  fs is the set of files os.walk meets that pass  *)
(* the extension and exclusion filters.                                    *)
(***************************************************************************)
Paths == 1..MaxPaths

Min(a, b) == IF a <= b THEN a ELSE b
Max(a, b) == IF a >= b THEN a ELSE b

\* the orders in which os.walk can meet the files of S
WalkOrders(S) ==
    {w \in [1..Cardinality(S) -> S] : \A a, b \in 1..Cardinality(S) : w[a] = w[b] => a = b}

RECURSIVE Insert(_, _)
Insert(x, s) ==
    IF s = <<>> THEN <<x>>
    ELSE IF x <= Head(s) THEN <<x>> \o s
    ELSE <<Head(s)>> \o Insert(x, Tail(s))

\* sorted(s)
RECURSIVE SortedList(_)
SortedList(s) == IF s = <<>> THEN <<>> ELSE Insert(Head(s), SortedList(Tail(s)))

find_source_files_Unsorted(walked) == walked

\* return sorted(source_files), source_files in walk order
find_source_files(walked) == SortedList(walked)

\* s[:n]
SliceTo(s, n) ==
    IF n >= 0 THEN SubSeq(s, 1, Min(n, Len(s)))
    ELSE SubSeq(s, 1, Max(Len(s) + n, 0))

\* an Optional[int] argument: <<>> is None, <<n>> the integer n
NoArg == <<>>

\* if max_files:
Truthy(m) == m # NoArg /\ m[1] # 0

\* lines 223-224
CapFiles(sf, m) == IF Truthy(m) THEN SliceTo(sf, m[1]) ELSE sf

MaxFilesArgs == {NoArg} \cup {<<n>> : n \in -1..MaxPaths}

\* what the analyzer wrote, whole or until it was killed
StdoutText == <<"analysis output">>
StderrSet  == {<<>>, ScenarioText, TraceLine \o <<NL>>}

\* the exception holds no exit status
NoReturnCode == -1

TimeoutMessage == "Analysis timeout (60s)"
FailedMessage  == "Analysis failed"

\* subprocess.run: it returns a CompletedProcess, or raises TimeoutExpired
\* (the exception holds the output captured so far), or raises another
\* Exception (OSError: executable missing, permission denied)
Outcomes ==
    [kind : {"completed"}, returncode : {0, 1}, stdout : {StdoutText}, stderr : StderrSet]
        \cup [kind : {"timeout", "oserror"}, returncode : {NoReturnCode},
              stdout : {StdoutText}, stderr : {ScenarioText}]

Caught_TimeoutOnly(kind) == kind = "timeout"

\* except subprocess.TimeoutExpired / except Exception
Caught(kind) == kind = "timeout" \/ kind \in {"timeout", "oserror"}

analyze_file_ParseOnSuccess(source_file, o) ==
    IF o.kind = "completed"
    THEN [file     |-> source_file,
          success  |-> o.returncode = 0,
          warnings |-> IF o.returncode = 0 THEN parse_text_output(o.stderr) ELSE <<>>,
          errors   |-> <<>>,
          stdout   |-> o.stdout,
          stderr   |-> o.stderr]
    ELSE [file     |-> source_file,
          success  |-> FALSE,
          warnings |-> <<>>,
          errors   |-> IF o.kind = "timeout" THEN <<TimeoutMessage>> ELSE <<FailedMessage>>,
          stdout   |-> <<>>,
          stderr   |-> <<>>]

analyze_file_KeepPartial(source_file, o) ==
    [file     |-> source_file,
     success  |-> o.kind = "completed" /\ o.returncode = 0,
     warnings |-> IF o.stderr # <<>> THEN parse_text_output(o.stderr) ELSE <<>>,
     errors   |-> IF o.kind = "completed" THEN <<>>
                  ELSE IF o.kind = "timeout" THEN <<TimeoutMessage>>
                  ELSE <<FailedMessage>>,
     stdout   |-> o.stdout,
     stderr   |-> o.stderr]

\* lines 127-157: the result dict analyze_file returns when the subprocess
\* did o
analyze_file(source_file, o) ==
    IF o.kind = "completed"
    THEN [file     |-> source_file,
          success  |-> o.returncode = 0,
          warnings |-> IF o.stderr # <<>> THEN parse_text_output(o.stderr) ELSE <<>>,
          errors   |-> <<>>,
          stdout   |-> o.stdout,
          stderr   |-> o.stderr]
    ELSE [file     |-> source_file,
          success  |-> FALSE,
          warnings |-> <<>>,
          errors   |-> IF o.kind = "timeout" THEN <<TimeoutMessage>> ELSE <<FailedMessage>>,
          stdout   |-> <<>>,
          stderr   |-> <<>>]

EmptyResults_Shared ==
    IF "results" \in DOMAIN results
    THEN results
    ELSE [files_analyzed |-> 0, files_with_warnings |-> 0, total_warnings |-> 0,
          results |-> <<>>]

\* lines 228-233
EmptyResults ==
    [files_analyzed |-> 0, files_with_warnings |-> 0, total_warnings |-> 0, results |-> <<>>]

NoSourceFiles_Unflagged ==
    [files_analyzed |-> 0, files_with_warnings |-> 0, total_warnings |-> 0, results |-> <<>>]

\* lines 217-221
NoSourceFiles == [error |-> "No source files found", files_analyzed |-> 0, results |-> <<>>]

AddResult_Prepend(r, file_result) ==
    [results             |-> <<file_result>> \o r.results,
     files_analyzed      |-> r.files_analyzed + 1,
     files_with_warnings |-> IF file_result.warnings # <<>>
                             THEN r.files_with_warnings + 1 ELSE r.files_with_warnings,
     total_warnings      |-> r.total_warnings + Len(file_result.warnings)]

AddResult_CountOne(r, file_result) ==
    [results             |-> Append(r.results, file_result),
     files_analyzed      |-> r.files_analyzed + 1,
     files_with_warnings |-> IF file_result.warnings # <<>>
                             THEN r.files_with_warnings + 1 ELSE r.files_with_warnings,
     total_warnings      |-> IF file_result.warnings # <<>>
                             THEN r.total_warnings + 1 ELSE r.total_warnings]

AddResult_CountErrors(r, file_result) ==
    LET hit == file_result.warnings # <<>> \/ file_result.errors # <<>>
    IN  [results             |-> Append(r.results, file_result),
         files_analyzed      |-> r.files_analyzed + 1,
         files_with_warnings |-> IF hit THEN r.files_with_warnings + 1
                                 ELSE r.files_with_warnings,
         total_warnings      |-> r.total_warnings + Len(file_result.warnings)]

\* lines 239-244
AddResult(r, file_result) ==
    [results             |-> Append(r.results, file_result),
     files_analyzed      |-> r.files_analyzed + 1,
     files_with_warnings |-> IF file_result.warnings # <<>>
                             THEN r.files_with_warnings + 1 ELSE r.files_with_warnings,
     total_warnings      |-> IF file_result.warnings # <<>>
                             THEN r.total_warnings + Len(file_result.warnings)
                             ELSE r.total_warnings]

ParserIdle ==
    /\ output = <<>>
    /\ lines = <<>>
    /\ pos = 0
    /\ warnings = <<>>
    /\ current_warning = 0
    /\ heap = <<>>
    /\ ppc = "idle"

\* main.py analyze_case, before CSAWrapper() is called
Init ==
    /\ ParserIdle
    /\ LocatorIdle
    /\ clang_works \in BOOLEAN
    /\ fs \in SUBSET Paths
    /\ max_files \in MaxFilesArgs
    /\ proc = [kind |-> "none"]
    /\ source_files = <<>>
    /\ idx = 0
    /\ results = Unbound
    /\ ret = Unbound
    /\ pc = "new"
    /\ locator_calls = 0
    /\ analyzer = <<>>
    /\ run = 1
    /\ prev_ret = Unbound
    /\ summary = <<>>

verify_clang_Unchecked(works) == "ok"

\* lines 43-54: _verify_clang returns, or raises RuntimeError when the
\* executable is missing or "clang --version" exits non-zero
verify_clang(works) == IF works THEN "ok" ELSE "RuntimeError"

\* lines 34-54: __init__ and _verify_clang
Construct ==
    /\ pc = "new"
    /\ pc' = IF verify_clang(clang_works) = "ok" THEN "ready" ELSE "raised"
    /\ UNCHANGED <<clang_works, fs, proc, max_files, source_files, idx, results, ret>>
    /\ UNCHANGED <<locator_calls, analyzer, run, prev_ret, summary>>
    /\ UNCHANGED pvars
    /\ UNCHANGED lvars

\* lines 214-221: the locator finds nothing
LocateEmpty ==
    /\ pc = "ready"
    /\ \E walked \in WalkOrders(fs) :
          /\ find_source_files(walked) = <<>>
          /\ source_files' = find_source_files(walked)
    /\ locator_calls' = locator_calls + 1
    /\ ret' = NoSourceFiles
    /\ pc' = "done"
    /\ UNCHANGED <<clang_works, fs, proc, max_files, idx, results>>
    /\ UNCHANGED <<analyzer, run, prev_ret, summary>>
    /\ UNCHANGED pvars
    /\ UNCHANGED lvars

\* lines 214-233: the locator finds files; cap them and start the loop
LocateFound ==
    /\ pc = "ready"
    /\ \E walked \in WalkOrders(fs) :
          /\ find_source_files(walked) # <<>>
          /\ source_files' = CapFiles(find_source_files(walked), max_files)
    /\ locator_calls' = locator_calls + 1
    /\ results' = EmptyResults
    /\ idx' = 0
    /\ pc' = "loop"
    /\ UNCHANGED <<clang_works, fs, proc, max_files, ret>>
    /\ UNCHANGED <<analyzer, run, prev_ret, summary>>
    /\ UNCHANGED pvars
    /\ UNCHANGED lvars

\* lines 235-247: one iteration, analyze_file included, when the
\* subprocess does o
AnalyzeWith(o) ==
    /\ pc = "loop"
    /\ idx < Len(source_files)
    /\ proc' = o
    /\ IF o.kind # "completed" /\ ~Caught(o.kind)
       THEN /\ pc' = "raised"
            /\ UNCHANGED <<idx, results>>
       ELSE /\ results' = AddResult(results, analyze_file(source_files[idx + 1], o))
            /\ idx' = idx + 1
            /\ pc' = "loop"
    /\ UNCHANGED <<clang_works, fs, max_files, source_files, ret>>
    /\ UNCHANGED <<locator_calls, analyzer, run, prev_ret, summary>>
    /\ UNCHANGED pvars
    /\ UNCHANGED lvars

\* one iteration with an analyzer free to do anything
AnalyzeOne == \E o \in Outcomes : AnalyzeWith(o)

\* one iteration with the deterministic analyzer
AnalyzeOneDet ==
    /\ pc = "loop"
    /\ idx < Len(source_files)
    /\ AnalyzeWith(analyzer[source_files[idx + 1]])

\* line 249
Return ==
    /\ pc = "loop"
    /\ idx = Len(source_files)
    /\ ret' = results
    /\ pc' = "done"
    /\ UNCHANGED <<clang_works, fs, proc, max_files, source_files, idx, results>>
    /\ UNCHANGED <<locator_calls, analyzer, run, prev_ret, summary>>
    /\ UNCHANGED pvars
    /\ UNCHANGED lvars

\* os.path.basename on the abstract paths: paths 2k-1 and 2k are files of
\* the same name in different directories
BaseName(path) == (path + 1) \div 2

\* one line of the report
ReportLine(kind) ==
    [kind |-> kind, count |-> 0, name |-> 0, line |-> <<>>, message |-> <<>>, text |-> ""]

\* lines 263-271
SummaryHead(r) ==
    << ReportLine("banner"),
       ReportLine("title"),
       ReportLine("banner"),
       [ReportLine("files_analyzed") EXCEPT !.count = r.files_analyzed],
       [ReportLine("files_with_warnings") EXCEPT !.count = r.files_with_warnings],
       [ReportLine("total_warnings") EXCEPT !.count = r.total_warnings],
       ReportLine("banner") >>

\* lines 282-285
FindingLines(ws) ==
    [n \in 1..Len(ws) |->
        [ReportLine("finding") EXCEPT !.line = ws[n].line, !.message = ws[n].message]]

ListsFile_Always(file_result) == TRUE

\* line 278: if file_result['warnings']
ListsFile(file_result) == file_result.warnings # <<>>

\* lines 277-285
RECURSIVE FileListing(_)
FileListing(frs) ==
    IF frs = <<>> THEN <<>>
    ELSE (IF ListsFile(Head(frs))
          THEN << [ReportLine("file") EXCEPT !.name = BaseName(Head(frs).file),
                                             !.count = Len(Head(frs).warnings)] >>
                  \o FindingLines(Head(frs).warnings)
          ELSE <<>>)
            \o FileListing(Tail(frs))

\* lines 260-287: the report, one element per appended string
summarize_results(r) ==
    IF "error" \in DOMAIN r
    THEN << [ReportLine("error") EXCEPT !.text = r.error] >>
    ELSE SummaryHead(r)
            \o (IF r.total_warnings > 0
                THEN <<ReportLine("by_file"), ReportLine("rule")>> \o FileListing(r.results)
                ELSE <<>>)

\* main.py line 54: print(wrapper.summarize_results(results))
Summarize ==
    /\ pc = "done"
    /\ summary' = summarize_results(ret)
    /\ pc' = "summarized"
    /\ UNCHANGED <<clang_works, fs, proc, max_files, source_files, idx, results, ret>>
    /\ UNCHANGED <<locator_calls, analyzer, run, prev_ret>>
    /\ UNCHANGED pvars
    /\ UNCHANGED lvars

\* the caller calls analyze_directory again on the same engine with the
\* same arguments; the locals of the finished call are dead and are
\* rebound by the new call before they are read
Rerun ==
    /\ pc = "summarized"
    /\ run < MaxRuns
    /\ prev_ret' = ret
    /\ run' = run + 1
    /\ locator_calls' = 0
    /\ pc' = "ready"
    /\ UNCHANGED <<clang_works, fs, proc, max_files, source_files, idx, results, ret>>
    /\ UNCHANGED <<analyzer, summary>>
    /\ UNCHANGED pvars
    /\ UNCHANGED lvars

Next == Construct \/ LocateEmpty \/ LocateFound \/ AnalyzeOne \/ Return \/ Summarize

Spec == Init /\ [][Next]_vars

\* as Init, with an analyzer that does the same on the same file
InitTwice ==
    /\ ParserIdle
    /\ LocatorIdle
    /\ clang_works \in BOOLEAN
    /\ fs \in SUBSET Paths
    /\ max_files \in MaxFilesArgs
    /\ analyzer \in [fs -> Outcomes]
    /\ proc = [kind |-> "none"]
    /\ source_files = <<>>
    /\ idx = 0
    /\ results = Unbound
    /\ ret = Unbound
    /\ pc = "new"
    /\ locator_calls = 0
    /\ run = 1
    /\ prev_ret = Unbound
    /\ summary = <<>>

NextTwice ==
    Construct \/ LocateEmpty \/ LocateFound \/ AnalyzeOneDet \/ Return \/ Summarize \/ Rerun

SpecTwice == InitTwice /\ [][NextTwice]_vars

\* the program is sequential and every subprocess wait is bounded by the
\* timeout, so a step that can be taken is taken
SpecLive == Init /\ [][Next]_vars /\ WF_vars(Next)

(***************************************************************************)
(* Vocabulary of the batch properties                                      *)
(***************************************************************************)
IsBatchResult(r) == "results" \in DOMAIN r /\ "error" \notin DOMAIN r

RECURSIVE SumFindings(_)
SumFindings(frs) ==
    IF frs = <<>> THEN 0 ELSE Len(Head(frs).warnings) + SumFindings(Tail(frs))

WithFindings(frs) == {k \in 1..Len(frs) : Len(frs[k].warnings) >= 1}

FilesOf(frs) == [k \in 1..Len(frs) |-> frs[k].file]

\* the strictly ascending list of the members of S
Ascending(S) ==
    CHOOSE s \in [1..Cardinality(S) -> S] :
        \A a, b \in 1..Cardinality(S) : a < b => s[a] < s[b]

IsPrefix(s, t) == Len(s) <= Len(t) /\ s = SubSeq(t, 1, Len(s))

Failed(o) == o.kind \in {"timeout", "oserror"}

(***************************************************************************)
(* Properties of analyze_file and analyze_directory                        *)
(***************************************************************************)

\* C5: in every BatchResult returned over a non-empty file set,
\* files_analyzed is the number of FileResults, files_with_warnings the
\* number of FileResults with at least one finding, total_warnings the sum
\* of the finding counts.
C5_CountersMatchResults ==
    (pc = "done" /\ IsBatchResult(ret)) =>
        /\ ret.files_analyzed = Len(ret.results)
        /\ ret.files_with_warnings = Cardinality(WithFindings(ret.results))
        /\ ret.total_warnings = SumFindings(ret.results)

\* two warnings, zero warnings, a timeout: 3, 1, 2
C5_Witness ==
    /\ pc = "done"
    /\ IsBatchResult(ret)
    /\ Len(ret.results) = 3
    /\ Len(ret.results[1].warnings) = 2
    /\ ret.results[2].warnings = <<>> /\ ret.results[2].errors = <<>>
    /\ ret.results[3].errors = <<TimeoutMessage>>
    /\ ret.files_analyzed = 3
    /\ ret.files_with_warnings = 1
    /\ ret.total_warnings = 2

\* C6: once the tool is verified and the locator result is non-empty, the
\* run terminates with a BatchResult holding a FileResult for every selected
\* file, whatever the per-file outcomes.
C6_BatchAlwaysCompletes ==
    (pc = "loop") ~>
        (pc = "done" /\ IsBatchResult(ret) /\ FilesOf(ret.results) = source_files)

\* a failed file followed by an analyzed one, all in the returned result
C6_Witness ==
    /\ pc = "done"
    /\ IsBatchResult(ret)
    /\ Len(ret.results) = 3
    /\ ret.results[1].errors = <<TimeoutMessage>>
    /\ ret.results[2].errors = <<FailedMessage>>
    /\ ret.results[3].errors = <<>>

\* C7: when the subprocess times out or the invocation fails otherwise,
\* analyze_file returns a FileResult with success false, a fatal-error
\* string (the timeout message for a timeout), no findings and no captured
\* output.
C7_FailureResult ==
    (pc \in {"loop", "done", "raised"} /\ Failed(proc)) =>
        /\ pc # "raised"
        /\ Len(results.results) = idx
        /\ LET fr == results.results[idx]
           IN  /\ fr.success = FALSE
               /\ Len(fr.errors) >= 1
               /\ proc.kind = "timeout" => fr.errors = <<TimeoutMessage>>
               /\ fr.warnings = <<>>
               /\ fr.stdout = <<>>
               /\ fr.stderr = <<>>

\* the killed process had written diagnostics
C7_Witness ==
    /\ pc = "loop"
    /\ proc.kind = "timeout"
    /\ proc.stderr = ScenarioText
    /\ idx = 2
    /\ results.results[2].errors = <<TimeoutMessage>>

\* C8: a file whose analysis fails fatally adds one to files_analyzed and
\* leaves files_with_warnings and total_warnings unchanged.
C8_FailedFileCounts ==
    [][(pc = "loop" /\ pc' = "loop" /\ idx' = idx + 1 /\ Failed(proc')) =>
          /\ results'.files_analyzed = results.files_analyzed + 1
          /\ results'.files_with_warnings = results.files_with_warnings
          /\ results'.total_warnings = results.total_warnings]_vars

\* a failure after a file with findings
C8_Witness ==
    /\ pc = "loop"
    /\ Failed(proc)
    /\ idx = 2
    /\ results.files_analyzed = 2
    /\ results.files_with_warnings = 1
    /\ results.total_warnings = 2

\* C9: the files named by the FileResults are the (possibly capped) sorted
\* locator list, in order: during the loop the first idx of them, at the end
\* all of them, each once.
C9_ResultsFollowLocatorOrder ==
    /\ pc = "loop" =>
          /\ FilesOf(results.results) = SubSeq(source_files, 1, idx)
          /\ IsPrefix(source_files, Ascending(fs))
    /\ (pc = "done" /\ IsBatchResult(ret)) =>
          /\ FilesOf(ret.results) = source_files
          /\ IsPrefix(source_files, Ascending(fs))

C9_Witness ==
    /\ pc = "done"
    /\ IsBatchResult(ret)
    /\ fs = {1, 2, 3}
    /\ max_files = <<2>>
    /\ FilesOf(ret.results) = <<1, 2>>

\* C10: for every non-negative max_files N and every locator result of
\* L >= 1 sorted paths, exactly the first min(N, L) paths are analyzed.
C10_CapIsMin ==
    (pc = "done" /\ fs # {} /\ max_files # NoArg /\ max_files[1] >= 0) =>
        FilesOf(ret.results)
            = SubSeq(Ascending(fs), 1, Min(max_files[1], Cardinality(fs)))

(***************************************************************************)
(* find_source_files on a directory tree                                   *)
(*                                                                         *)
(* File and directory names and paths are sequences of one-character       *)
(* strings.  A file on disk is the list of the names from root_dir down to *)
(* the file; a directory exists when a file lies below it.                 *)
(***************************************************************************)
SLASH == "/"

\* the characters in use, in code point order
CharOrder ==
    <<"+", ".", "/", "A", "F", "L", "T",
      "a", "b", "c", "e", "f", "g", "h", "i", "l", "m", "n", "o", "p",
      "r", "s", "t", "u", "w", "x", "z">>

Ord(c) == CHOOSE n \in 1..Len(CharOrder) : CharOrder[n] = c

\* str.lower()
LowerChar(c) ==
    CASE c = "A" -> "a"
      [] c = "F" -> "f"
      [] c = "L" -> "l"
      [] c = "T" -> "t"
      [] OTHER   -> c

Lower(s) == [n \in 1..Len(s) |-> LowerChar(s[n])]

\* s < t on strings
RECURSIVE LexLess(_, _)
LexLess(s, t) ==
    IF t = <<>> THEN FALSE
    ELSE IF s = <<>> THEN TRUE
    ELSE IF Head(s) # Head(t) THEN Ord(Head(s)) < Ord(Head(t))
    ELSE LexLess(Tail(s), Tail(t))

RECURSIVE InsertPath(_, _)
InsertPath(x, s) ==
    IF s = <<>> THEN <<x>>
    ELSE IF ~LexLess(Head(s), x) THEN <<x>> \o s
    ELSE <<Head(s)>> \o InsertPath(x, Tail(s))

\* sorted(source_files) on strings
RECURSIVE SortedPaths(_)
SortedPaths(s) == IF s = <<>> THEN <<>> ELSE InsertPath(Head(s), SortedPaths(Tail(s)))

\* lines 70-74
DefaultExcludePatterns ==
    << <<"f", "u", "z", "z">>, <<"a", "f", "l">>, <<"h", "o", "n", "g", "g", "f", "u", "z", "z">>, <<"l", "i", "b", "f", "u", "z", "z", "e", "r">>, <<"t", "e", "s", "t">>, <<"t", "e", "s", "t", "s">>, <<"e", "x", "a", "m", "p", "l", "e">>, <<"e", "x", "a", "m", "p", "l", "e", "s">> >>

\* line 77
Extensions == { <<".", "c">>, <<".", "c", "p", "p">>, <<".", "c", "c">>, <<".", "c", "x", "x">>, <<".", "c", "+", "+">> }

\* s.endswith(ext)
EndsWith(s, ext) ==
    Len(s) >= Len(ext) /\ SubSeq(s, Len(s) - Len(ext) + 1, Len(s)) = ext

\* any(file.endswith(ext) for ext in extensions)
HasSourceExtension(file) == \E ext \in Extensions : EndsWith(file, ext)

\* lines 70-74: the patterns in force
PatternsInForce(arg) == IF arg = NoArg THEN DefaultExcludePatterns ELSE arg[1]

\* any(pattern in s.lower() for pattern in exclude_patterns)
MatchesExclude(s, pats) == \E n \in 1..Len(pats) : Contains(Lower(s), pats[n])

PruneDirs_KeepAll(ds, pats) == ds

\* lines 81-84: dirs[:] = [d for d in dirs if not any(...)]
PruneDirs(ds, pats) == {d \in ds : ~MatchesExclude(d, pats)}

\* os.path.join(a, b)
JoinPath(a, b) == IF a # <<>> /\ a[Len(a)] = SLASH THEN a \o b ELSE a \o <<SLASH>> \o b

\* the string os.walk yields as root for the directory d below top
RECURSIVE WalkRoot(_, _)
WalkRoot(top, d) == IF d = <<>> THEN top ELSE WalkRoot(JoinPath(top, Head(d)), Tail(d))

\* the working directory of the process
Cwd == <<"/", "w">>

\* os.path.abspath(p), p free of "." and ".." components
AbsPath(p) == IF p # <<>> /\ Head(p) = SLASH THEN p ELSE JoinPath(Cwd, p)

IsUnder(f, d) == Len(f) > Len(d) /\ SubSeq(f, 1, Len(d)) = d

\* what os.scandir lists in the directory d
SubDirs(tr, d)  == {f[Len(d) + 1] : f \in {g \in tr : IsUnder(g, d) /\ Len(g) > Len(d) + 1}}
FilesIn(tr, d)  == {f[Len(d) + 1] : f \in {g \in tr : IsUnder(g, d) /\ Len(g) = Len(d) + 1}}

\* the orders in which a directory listing can come
Listings(S) ==
    {w \in [1..Cardinality(S) -> S] : \A a, b \in 1..Cardinality(S) : w[a] = w[b] => a = b}

\* lines 86-91, for one file of the directory whose walk root is r
AcceptFile(r, file, pats) ==
    HasSourceExtension(file) /\ ~MatchesExclude(JoinPath(r, file), pats)

\* lines 86-91, over the files of one directory in listing order
RECURSIVE CollectFiles(_, _, _)
CollectFiles(r, files, pats) ==
    IF files = <<>> THEN <<>>
    ELSE (IF AcceptFile(r, Head(files), pats)
          THEN <<AbsPath(JoinPath(r, Head(files)))>> ELSE <<>>)
            \o CollectFiles(r, Tail(files), pats)

\* the files a disk can hold
DiskFiles ==
    { << <<"a", ".", "c">> >>, << <<"h", ".", "h">> >>, << <<"t", "e", "s", "t", ".", "c">> >>,
      << <<"s", "r", "c">>, <<"b", ".", "c", "p", "p">> >>, << <<"s", "r", "c">>, <<"A", "F", "L">>, <<"g", ".", "c", "+", "+">> >>,
      << <<"f", "u", "z", "z">>, <<"f", ".", "c">> >>, << <<"f", "u", "z", "z">>, <<"s", "r", "c">>, <<"e", ".", "c", "c">> >>,
      << <<"T", "e", "s", "t", "s">>, <<"t", ".", "c">> >>, << <<"l", "i", "b">>, <<"x", ".", "c", "x", "x">> >> }

Roots == { <<"/", "r">>, <<"r">>, <<"/", "t", "e", "s", "t">> }

ExcludeArgs == { NoArg, << << <<"l", "i", "b">> >> >> }

LocateInit ==
    /\ root_exists \in BOOLEAN
    /\ tree \in (IF root_exists THEN SUBSET DiskFiles ELSE {{}})
    /\ root_dir \in Roots
    /\ exclude_patterns \in ExcludeArgs
    /\ pending = {}
    /\ visited = {}
    /\ found = <<>>
    /\ located = <<>>
    /\ lpc = "start"
    /\ ParserIdle
    /\ BatchIdle

\* lines 70-79: os.walk(root_dir) starts; a missing root yields nothing
WalkStart ==
    /\ lpc = "start"
    /\ pending' = IF root_exists THEN {<<>>} ELSE {}
    /\ visited' = {}
    /\ found' = <<>>
    /\ lpc' = "walk"
    /\ UNCHANGED <<tree, root_dir, root_exists, exclude_patterns, located>>
    /\ UNCHANGED pvars
    /\ UNCHANGED bvars

\* lines 79-91: one iteration of the loop over os.walk
WalkDir ==
    /\ lpc = "walk"
    /\ \E d \in pending :
          LET pats == PatternsInForce(exclude_patterns)
              kept == PruneDirs(SubDirs(tree, d), pats)
          IN  /\ pending' = (pending \ {d}) \cup {Append(d, n) : n \in kept}
              /\ visited' = visited \cup {d}
              /\ \E files \in Listings(FilesIn(tree, d)) :
                    found' = found \o CollectFiles(WalkRoot(root_dir, d), files, pats)
    /\ UNCHANGED <<tree, root_dir, root_exists, exclude_patterns, located, lpc>>
    /\ UNCHANGED pvars
    /\ UNCHANGED bvars

\* line 93
WalkReturn ==
    /\ lpc = "walk"
    /\ pending = {}
    /\ located' = SortedPaths(found)
    /\ lpc' = "done"
    /\ UNCHANGED <<tree, root_dir, root_exists, exclude_patterns, pending, visited, found>>
    /\ UNCHANGED pvars
    /\ UNCHANGED bvars

LocateNext == WalkStart \/ WalkDir \/ WalkReturn

SpecLocate == LocateInit /\ [][LocateNext]_vars

(***************************************************************************)
(* Properties of find_source_files                                         *)
(***************************************************************************)
\* the name, compared without case, holds one of the patterns
ExcludedName(name, pats) ==
    \E n \in 1..Len(pats) :
        \E k \in 1..(Len(name) - Len(pats[n]) + 1) :
            \A j \in 1..Len(pats[n]) : LowerChar(name[k + j - 1]) = pats[n][j]

\* the directories of the file f, below the root
DirsOf(f) == {f[k] : k \in 1..(Len(f) - 1)}

RECURSIVE Slashed(_)
Slashed(f) == IF f = <<>> THEN <<>> ELSE <<SLASH>> \o Head(f) \o Slashed(Tail(f))

\* the absolute path of the disk file f
DiskPath(f) ==
    (IF Head(root_dir) = SLASH THEN root_dir ELSE Cwd \o <<SLASH>> \o root_dir)
        \o Slashed(f)

StrictlySorted(ps) == \A a, b \in 1..Len(ps) : a < b => LexLess(ps[a], ps[b])

C13_MissingRootSignalled ==
    (lpc = "done" /\ ~root_exists) => located # <<>>

(***************************************************************************)
(* Further properties of the engine                                        *)
(***************************************************************************)

\* C12: analyze_directory calls the locator exactly once; when it returns
\* no files the result is flagged as a locator error, has zero files
\* analyzed and no FileResults, and the analyzer ran on no file; a run over
\* a non-empty file set is never flagged.
C12_LocatorOnceAndFlagged ==
    /\ locator_calls <= 1
    /\ pc \in {"loop", "done", "summarized"} => locator_calls = 1
    /\ (pc = "done" /\ fs = {}) =>
          /\ "error" \in DOMAIN ret
          /\ ret.files_analyzed = 0
          /\ ret.results = <<>>
          /\ proc.kind = "none"
    /\ (pc = "done" /\ fs # {}) => IsBatchResult(ret)

C12_Witness ==
    /\ pc = "done"
    /\ fs = {}
    /\ locator_calls = 1
    /\ "error" \in DOMAIN ret

\* C14: when the tool check at construction fails, construction raises and
\* in that run the locator is never called and no file is analyzed.
C14_NoAnalysisWithoutTool ==
    ~clang_works =>
        /\ pc \in {"new", "raised"}
        /\ locator_calls = 0
        /\ proc.kind = "none"
        /\ results = Unbound
        /\ ret = Unbound

C14_Witness ==
    /\ pc = "raised"
    /\ ~clang_works
    /\ fs = {1, 2}
    /\ locator_calls = 0

\* C15: a second analyze_directory call with the same arguments, the same
\* tree and an analyzer that does the same on the same file returns a result
\* identical to the first: same FileResult order, findings and counters.
C15_SecondRunIdentical ==
    (run >= 2 /\ pc = "done") => ret = prev_ret

C15_Witness ==
    /\ run = 2
    /\ pc = "done"
    /\ IsBatchResult(ret)
    /\ Len(ret.results) = 2
    /\ ret.total_warnings = 2
    /\ ret.results[2].errors = <<TimeoutMessage>>
    /\ prev_ret = ret

\* C17: when the subprocess completes, success is (exit code = 0), the
\* findings are parse(stderr) whatever the exit code, and there is no fatal
\* error; a non-zero exit with the scenario text on stderr yields the two
\* scenario records.
C17_CompletedResult ==
    (pc \in {"loop", "done", "summarized"} /\ proc.kind = "completed") =>
        LET fr == results.results[idx]
        IN  /\ fr.success = (proc.returncode = 0)
            /\ fr.warnings = parse_text_output(proc.stderr)
            /\ fr.errors = <<>>
            /\ proc.stderr = ScenarioText => fr.warnings = ScenarioRecords

C17_Witness ==
    /\ pc = "loop"
    /\ proc.kind = "completed"
    /\ proc.returncode = 1
    /\ proc.stderr = ScenarioText
    /\ results.results[idx].success = FALSE
    /\ Len(results.results[idx].warnings) = 2

IsListingLine(l) == l.kind \in {"file", "finding"}
IsFindingLine(l) == l.kind = "finding"

CountLine(rep, kind) == {n \in 1..Len(rep) : rep[n].kind = kind}

\* the listing the report owes to the FileResults frs
RECURSIVE ExpectedListing(_)
ExpectedListing(frs) ==
    IF frs = <<>> THEN <<>>
    ELSE LET fr == Head(frs)
             ws == fr.warnings
         IN  (IF Len(ws) >= 1
              THEN << [kind |-> "file", count |-> Len(ws), name |-> BaseName(fr.file),
                       line |-> <<>>, message |-> <<>>, text |-> ""] >>
                    \o [n \in 1..Len(ws) |->
                          [kind |-> "finding", count |-> 0, name |-> 0,
                           line |-> ws[n].line, message |-> ws[n].message, text |-> ""]]
              ELSE <<>>)
                \o ExpectedListing(Tail(frs))

ShowsCount(rep, kind, value) ==
    /\ Cardinality(CountLine(rep, kind)) = 1
    /\ \A n \in CountLine(rep, kind) :
          /\ rep[n].count = value
          /\ \A m \in 1..Len(rep) : IsListingLine(rep[m]) => n < m

\* C18: summarize_results reports on every result analyze_directory
\* returns, changing nothing: a locator error gives the error line only;
\* otherwise the three stored counts come first, then, for each FileResult
\* with a finding, in order, its basename and finding count and one line per
\* finding, so that the finding lines number total_warnings.
C18_SummaryShowsResult ==
    [][(pc = "done" /\ pc' = "summarized") =>
          /\ ret' = ret /\ proc' = proc /\ locator_calls' = locator_calls
          /\ IF "error" \in DOMAIN ret
             THEN /\ Len(summary') = 1
                  /\ summary'[1].kind = "error"
                  /\ summary'[1].text = ret.error
             ELSE /\ ShowsCount(summary', "files_analyzed", ret.files_analyzed)
                  /\ ShowsCount(summary', "files_with_warnings", ret.files_with_warnings)
                  /\ ShowsCount(summary', "total_warnings", ret.total_warnings)
                  /\ SelectSeq(summary', IsListingLine) = ExpectedListing(ret.results)
                  /\ Len(SelectSeq(summary', IsFindingLine)) = ret.total_warnings]_vars

C18_Witness ==
    /\ pc = "summarized"
    /\ IsBatchResult(ret)
    /\ Len(ret.results) = 3
    /\ ret.results[2].warnings = <<>>
    /\ ret.total_warnings = 4
    /\ Len(SelectSeq(summary, IsFindingLine)) = 4

\* C20: each per-file step appends one FileResult, for the next selected
\* file, after the unchanged earlier ones; files_analyzed grows by one, the
\* two warning counters never decrease, and files_with_warnings never
\* exceeds files_analyzed or total_warnings.
C20_AggregateOnlyGrows ==
    /\ [][(pc = "loop" /\ idx' = idx + 1) =>
             /\ Len(results'.results) = Len(results.results) + 1
             /\ SubSeq(results'.results, 1, Len(results.results)) = results.results
             /\ results'.results[Len(results'.results)].file = source_files[idx + 1]
             /\ results'.files_analyzed = results.files_analyzed + 1
             /\ results'.files_with_warnings >= results.files_with_warnings
             /\ results'.total_warnings >= results.total_warnings]_vars
    /\ [](pc = "loop" =>
             /\ results.files_with_warnings <= results.files_analyzed
             /\ results.files_with_warnings <= results.total_warnings)

C20_Witness ==
    /\ pc = "loop"
    /\ idx = 3
    /\ results.files_analyzed = 3
    /\ results.files_with_warnings = 2
    /\ results.total_warnings = 4
    /\ results.results[2].errors = <<FailedMessage>>

(***************************************************************************)
(* Further properties of the parser                                        *)
(***************************************************************************)

\* C16: for a text none of whose lines carries a warning or error severity
\* marker, parse returns the empty sequence, whatever its other lines are;
\* no record is opened at any point of the loop.
C16_NoHeaderNoRecord ==
    (ppc \in {"loop", "done"} /\ \A n \in 1..Len(lines) : ~HasSeverityMarker(lines[n])) =>
        /\ current_warning = 0
        /\ heap = <<>>
        /\ Returned = <<>>

C16_Witness ==
    /\ ppc = "done"
    /\ lines = <<NoteLine, TraceLine, BlankLine, NoteLine>>
    /\ Returned = <<>>

\* C19: every record parse returns has severity exactly "warning" or
\* "error", also for headers whose path or message holds colons or a marker.
C19_SeverityIsWarningOrError ==
    ppc = "done" =>
        \A n \in 1..Len(Returned) : Returned[n].severity \in {<<"warning">>, <<"error">>}

====
